---- MODULE Spec2Model ----
(***************************************************************************)
(* Bulk: a bulk-synchronous parallel library.  The model covers the        *)
(* message queues of messages.hpp (queue, queue::sender, queue::impl and   *)
(* the queue_base hooks a world calls during a sync), the registration of  *)
(* queues and variables with a world, one-sided put/get on variables, and  *)
(* the barrier of world::sync().                                           *)
(*                                                                         *)
(* A message of queue<int, int> is the record [tag, body] with a body of   *)
(* one element; a message of queue<int[], int> has the array as body.  A   *)
(* program tags each message with the id of the processor that sends it    *)
(* and numbers the messages of queue<int, int> it sends in a superstep.     *)
(***************************************************************************)
EXTENDS Integers, Sequences, FiniteSets, TLC

\* ------------------------------------------------------------- bounds
NProcs == 2       \* P, the number of processors of the world
MaxSteps == 2     \* calls of sync() per processor
MaxSends == 3     \* messages sent in a run, all processors together
MaxCtors == 2     \* queue constructions in a run, all processors together
NQObjs == 2       \* queue objects a program declares
MaxArr == 1       \* elements of a send_many
NVObjs == 2       \* variable objects a program declares
MaxRma == 3       \* puts and gets in a run, all processors together
MaxRegCtors == 3  \* constructions of one kind in a run that only registers objects
MaxProg == 4      \* collective operations in the text of a program
MaxCollMsgs == 2  \* sends and puts in a run of a collective program, all processors together
MaxBothMsgs == 3  \* sends, puts and gets in a run that uses queues and variables, all processors together
MaxElems == 3     \* elements of a send_many in a run that only sends arrays
MaxVals == 2      \* values serialized into one memory_buffer
MaxStr == 2       \* characters of a serialized string
MaxVec == 2       \* elements of a serialized vector
MaxStreams == 2   \* calls of provider::create_stream
MaxOps == 3       \* calls of seek_rel, seek_abs, write and read on one open stream

Procs == 0 .. (NProcs - 1)
QHandles == 1 .. NQObjs
QIds == 0 .. (NQObjs - 1)
VHandles == 1 .. NVObjs
VIds == 0 .. (NVObjs - 1)
\* the values a program keeps in the local it passes to put
LocVals == {7, 8}
\* the slot of a future before its barrier
Undef == -1
Null == 0

\* sizeof(message_type) for std::tuple<int, int>
SizeofMessage == 8
\* sizeof(element_type) for int
SizeofElement == 4

\* queue<int[], int> for the even objects, queue<int, int> for the odd ones
IsArray(h) == h % 2 = 0

\* the content of the n-th message a processor sends in a superstep
Serial(n) == 100 + n

\* the array of n elements a program passes to send_many
ArrayOf(n) == [i \in 1 .. n |-> 10 * i]

VARIABLES
    pc,        \* pc[p]: "run" (in a superstep), "sync" (inside sync(), waiting), "ready" (communication done, about to return)
    entered,   \* entered[p]: calls of sync() processor p has made
    done,      \* done[p]: calls of sync() processor p has returned from
    queues_,   \* queues_[p][id]: the queue object registered under id on p, or Null
    impl,      \* impl[p][h]: the queue::impl of object h on p: live, id_, data_
    outbox,    \* outbox[p]: what p has passed to world::send_ / send_many_ in this superstep
    nsends,    \* messages sent so far
    nctors,    \* queues constructed so far
    lastsent,  \* history: the outboxes as they were at the last exchange
    fed,       \* history: fed[p], the objects of p whose buffer the last exchange filled and p has not cleared or destroyed since
    hadmsgs,   \* history: hadmsgs[p], the objects of p that held messages when p last entered sync()
    freedq,    \* history: freedq[p], the queue ids unregistered on p so far
    vars_,     \* vars_[p][id]: the variable object registered under id on p, or Null
    vimpl,     \* vimpl[p][v]: variable object v on p: live, id_, value
    loc,       \* loc[p]: a local of the program of p, the argument of its puts
    putbox,    \* putbox[p]: what p has passed to world::put_ in this superstep
    getbox,    \* getbox[p]: what p has passed to world::get_ in this superstep
    futs,      \* futs[p]: the slots of the futures p has created
    nrma,      \* puts and gets issued so far
    nvctors,   \* variables constructed so far
    lastputs,  \* history: the putboxes as they were at the last exchange
    lastgets,  \* history: the getboxes as they were at the last exchange
    preval,    \* history: the variable objects as they were when the last exchange began
    fedv,      \* history: fedv[p], the variables of p registered at the last exchange and not destroyed since
    freedv,    \* history: freedv[p], the variable ids unregistered on p so far
    prog,      \* the collective part of the program text the processors have reached so far: its constructions, destructions and calls of sync()
    ip,        \* ip[p]: how many collective operations of prog processor p has executed
    oor,       \* history: oor[p], the sends processor p has addressed to a processor id outside [0, P)
    outboxB,   \* program B (every send of a vector replaced by single sends): what p has passed to world::send_ in this superstep
    pendB,     \* program B: the elements of the vector program A just sent, which B still has to send one by one
    dataB,     \* program B: dataB[p][h], the delivery buffer of queue object h on p
    vecs,      \* history: the messages sent inside vectors so far
    plain,     \* TRUE when the program declares its array queues as queue<int[]>, FALSE when as queue<int[], int>
    membuf,    \* a memory_buffer: buffer (its bytes) and index
    vals,      \* the values a program serializes, in order
    nwritten,  \* how many of vals operator<< has written
    readback,  \* the values operator>> has read, in order
    sphase,    \* "scale" (sizing), "write", "read"; "fault" or "garbage" once an access left the buffer
    ssize,     \* scale::size
    wend,      \* history: index when the last value had been written
    overrun,   \* history: TRUE when a write has gone past the end of buffer
    env_initialized_,  \* provider::env_initialized_
    streams,   \* provider::streams: a sequence of [capacity, descriptor]
    pcall,     \* history: the last call of create_stream: its arguments, the state it saw, what it returned
    ncreates,  \* history: how many times create_stream has been called
    strm,      \* a kernel-side stream: stream_id, buffer, capacity, offset, size, cursor
    dmabusy,   \* stream::dma is busy: the E_DMA_ENABLE bit of dma_task::config
    spc,       \* where the running call of write or read stands: "idle", or waiting in a wait()
    scall,     \* history: the last call of write, read or seek_abs that returned: arguments, state before, result
    lastdma,   \* history: the last dma.push: dst, src, nbytes, and whether the task was busy then
    ndma,      \* history: how many times dma.push has been called
    nops,      \* history: how many calls have been made on the stream
    cbcall     \* history: the last call of a stream's read callback: arguments, bytes copied, result

bvars == <<pc, entered, done>>
qvars == <<queues_, impl, outbox, nsends, nctors, lastsent, fed, hadmsgs, freedq>>
vvars == <<vars_, vimpl, loc, putbox, getbox, futs, nrma, nvctors, lastputs, lastgets, preval, fedv, freedv>>
cvars == <<prog, ip>>
\* the variables of the components beside the world's tables, queues and variables
\* the variables beside those of the world and of the collective program
evars == <<oor>>
dvars == <<outboxB, pendB, dataB, vecs>>
avars == <<plain>>
mvars == <<membuf, vals, nwritten, readback, sphase, ssize, wend, overrun>>
\* the variables of the components that are no part of a world
pvars == <<env_initialized_, streams, pcall, ncreates>>
svars == <<strm, dmabusy, spc, scall, lastdma, ndma, nops>>
kvars == <<cbcall>>
xvars == <<mvars, pvars, svars, kvars>>
rvars == <<evars, dvars, avars, xvars>>
\* the variables of the programs that run on a world
wvars == <<bvars, qvars, vvars, cvars, evars, dvars, avars>>
ovars == <<cvars, rvars>>
vars == <<bvars, qvars, vvars, ovars>>

\* ------------------------------------------------------------- helpers
RECURSIVE SeqSum(_)
SeqSum(s) == IF s = <<>> THEN 0 ELSE Head(s) + SeqSum(Tail(s))

RECURSIVE Concat(_)
Concat(ss) == IF ss = <<>> THEN <<>> ELSE Head(ss) \o Concat(Tail(ss))

Min(S) == CHOOSE x \in S : \A y \in S : x <= y

\* message_type{}: a value-initialised tuple
DefaultMessage(isArray) == [tag |-> 0, body |-> IF isArray THEN <<>> ELSE <<0>>]

\* std::vector::resize(n): truncate, or pad with value-initialised elements
Resize(v, n, fill) == [i \in 1 .. n |-> IF i <= Len(v) THEN v[i] ELSE fill]

\* ------------------------------------------------------------- world: registration
\* world::register_queue_: the lowest id no registered queue holds
register_queue_(table) == Min({i \in QIds : table[i] = Null})

\* world::unregister_queue_(id)
unregister_queue_(table, id) == [table EXCEPT ![id] = Null]

\* ------------------------------------------------------------- queue::impl
\* impl(world) that drops the id the world returns
impl_ctor_noid(table) == [live |-> TRUE, id_ |-> 0, data_ |-> <<>>]

\* impl(world): id_ = world.register_queue_(this)
impl_ctor(table) == [live |-> TRUE, id_ |-> register_queue_(table), data_ |-> <<>>]

\* ~impl() that unregisters the highest registered id instead of its own
impl_dtor_last(table, obj) ==
    unregister_queue_(table, CHOOSE i \in QIds : table[i] # Null /\ \A j \in QIds : table[j] # Null => j <= i)

\* ~impl(): world_.unregister_queue_(id_)
impl_dtor(table, obj) == unregister_queue_(table, obj.id_)

\* send_(t, m): world_.send_(t, id_, &m, sizeof(m))
send_(obj, t, m) ==
    [dst |-> t, qid |-> obj.id_, kind |-> "one", msg |-> m, size |-> SizeofMessage,
     count |-> 0, elems |-> <<>>, size_of_other |-> 0]

\* send_many_(t, count, m, other, size_of_other):
\*   world_.send_many_(t, id_, m, sizeof(element_type), count, other, size_of_other)
send_many_(obj, t, count, m, other, size_of_other) ==
    [dst |-> t, qid |-> obj.id_, kind |-> "many", msg |-> other, size |-> SizeofElement,
     count |-> count, elems |-> m, size_of_other |-> size_of_other]

\* get_buffer_ with the byte count taken for a message count
get_buffer_bytes(data, size_in_bytes, isArray) ==
    Resize(data, size_in_bytes, DefaultMessage(isArray))

\* get_buffer_(size_in_bytes): data_.resize(size_in_bytes / sizeof(message_type))
get_buffer_(data, size_in_bytes, isArray) ==
    Resize(data, size_in_bytes \div SizeofMessage, DefaultMessage(isArray))

\* unsafe_push_back inserting at the front of data_
unsafe_push_front(data, msg) == <<msg>> \o data

\* unsafe_push_back(msg): data_.push_back(*msg)
unsafe_push_back(data, msg) == Append(data, msg)

\* unsafe_push_array whose memcpy copies count bytes, not size * count
unsafe_push_array_bytes(data, count, size, elems, size_of_other, other) ==
    LET pushed == IF size_of_other = 0 THEN DefaultMessage(TRUE) ELSE other
        nbytes == count
        copied == SubSeq(elems, 1, nbytes \div size)
    IN  Append(data, [pushed EXCEPT !.body =
                         [i \in 1 .. count |-> IF i <= Len(copied) THEN copied[i] ELSE 0]])

\* unsafe_push_array(count, size, data, size_of_other, other)
unsafe_push_array(data, count, size, elems, size_of_other, other) ==
    LET pushed == IF size_of_other = 0 THEN DefaultMessage(TRUE) ELSE other
        nbytes == size * count
        copied == SubSeq(elems, 1, nbytes \div size)
    IN  Append(data, [pushed EXCEPT !.body =
                         [i \in 1 .. count |-> IF i <= Len(copied) THEN copied[i] ELSE 0]])

\* clear_ as data_.pop_back(): only the last message goes
clear_pop_back(data) == IF data = <<>> THEN <<>> ELSE SubSeq(data, 1, Len(data) - 1)

\* clear_ leaving data_ as it is
clear_nothing(data) == data

\* clear_(): data_.clear()
clear_(data) == <<>>

\* ------------------------------------------------------------- world: variables
\* world::register_variable_: the lowest id no registered variable holds
register_variable_(table) == Min({i \in VIds : table[i] = Null})

\* world::unregister_variable_(id)
unregister_variable_(table, id) == [table EXCEPT ![id] = Null]

\* var(world): registers the variable; a program initialises it to its processor id
var_ctor(table, p) == [live |-> TRUE, id_ |-> register_variable_(table), value |-> p]

\* world::put_(dst, src_buf, size, var_id, ...): the bytes of the argument are taken at the call
put_(src, t, vid, arg) == [src |-> src, dst |-> t, vid |-> vid, val |-> arg]

\* world::get_(src_proc, var_id, ..., dst_buf, ...): dst_buf is the slot of a future
get_(t, vid, fut) == [src |-> t, vid |-> vid, fut |-> fut]

\* a put that reads its argument when the barrier transports it
PutPayloadAtBarrier(r, locs) == locs[r.src]

\* the bytes a scheduled put transports
PutPayload(r, locs) == r.val

\* puts applied last to first
RECURSIVE ApplyPutsReversed(_, _, _)
ApplyPutsReversed(value, recs, locs) ==
    IF recs = <<>> THEN value
    ELSE PutPayload(Head(recs), locs)

\* the value of a variable after the puts recs, applied first to last
RECURSIVE ApplyPuts(_, _, _)
ApplyPuts(value, recs, locs) ==
    IF recs = <<>> THEN value
    ELSE ApplyPuts(PutPayload(Head(recs), locs), Tail(recs), locs)

\* the orders in which a world may take the sources of the puts of a barrier
SenderOrders == {o \in [1 .. NProcs -> Procs] : \A i, j \in 1 .. NProcs : o[i] = o[j] => i = j}

\* the puts addressed to variable id on p, the sources in the given order and the
\* puts of one source in the order it issued them
IncomingPuts(box, order, p, id) ==
    Concat([i \in 1 .. NProcs |->
              SelectSeq(box[order[i]], LAMBDA r : r.dst = p /\ r.vid = id)])

\* a get that reads the owner's variable after the puts of the barrier
GetValueAfterPuts(before, after, src, v) == after[src][v].value

\* the value a get copies into its future: the owner's value when the barrier began
GetValue(before, after, src, v) == before[src][v].value

\* ------------------------------------------------------------- world: communication
\* The records of the outboxes addressed to queue id on processor p, the senders
\* taken in processor order and each sender's records in the order it sent them
Incoming(box, p, id) ==
    Concat([s \in 1 .. NProcs |->
              SelectSeq(box[s - 1], LAMBDA r : r.dst = p /\ r.qid = id)])

\* delivery through the push hooks, one call per message
RECURSIVE DeliverPush(_, _)
DeliverPush(data, recs) ==
    IF recs = <<>> THEN data
    ELSE LET r == Head(recs)
         IN  DeliverPush(IF r.kind = "one"
                            THEN unsafe_push_back(data, r.msg)
                            ELSE unsafe_push_array(data, r.count, r.size, r.elems,
                                                   r.size_of_other, r.msg),
                         Tail(recs))

\* delivery through get_buffer_: the world sizes the buffer and copies the messages in
DeliverCopy(data, recs, isArray) ==
    LET buf == get_buffer_(data, SeqSum([i \in 1 .. Len(recs) |-> recs[i].size]), isArray)
    IN  [i \in 1 .. Len(buf) |-> IF i <= Len(recs) THEN recs[i].msg ELSE buf[i]]

\* a queue can be filled by copy when every incoming record is a single message
CanCopy(recs) == \A i \in 1 .. Len(recs) : recs[i].kind = "one"

\* ------------------------------------------------------------- initial state
InitQueues ==
    /\ pc = [p \in Procs |-> "run"]
    /\ entered = [p \in Procs |-> 0]
    /\ done = [p \in Procs |-> 0]
    /\ queues_ = [p \in Procs |-> [i \in QIds |-> Null]]
    /\ impl = [p \in Procs |-> [h \in QHandles |-> [live |-> FALSE, id_ |-> 0, data_ |-> <<>>]]]
    /\ outbox = [p \in Procs |-> <<>>]
    /\ nsends = 0
    /\ nctors = 0
    /\ lastsent = [p \in Procs |-> <<>>]
    /\ fed = [p \in Procs |-> {}]
    /\ hadmsgs = [p \in Procs |-> {}]
    /\ freedq = [p \in Procs |-> {}]

InitRma ==
    /\ loc = [p \in Procs |-> 7]
    /\ putbox = [p \in Procs |-> <<>>]
    /\ getbox = [p \in Procs |-> <<>>]
    /\ futs = [p \in Procs |-> <<>>]
    /\ nrma = 0
    /\ lastputs = [p \in Procs |-> <<>>]
    /\ lastgets = [p \in Procs |-> <<>>]
    /\ preval = vimpl
    /\ fedv = [p \in Procs |-> {}]
    /\ freedv = [p \in Procs |-> {}]

\* the components beside the world, except the declaration of the array queues
\* scale starts with size = 0; no memory_buffer exists yet
InitSer ==
    /\ membuf = [buffer |-> <<>>, index |-> 0]
    /\ vals = <<>>
    /\ nwritten = 0
    /\ readback = <<>>
    /\ sphase = "scale"
    /\ ssize = 0
    /\ wend = 0
    /\ overrun = FALSE

\* provider::provider() sets env_initialized_ = 0; streams is empty
NoCall == [made |-> FALSE]

InitProv ==
    /\ env_initialized_ = 0
    /\ streams = <<>>
    /\ pcall = NoCall
    /\ ncreates = 0

Idle == [at |-> "idle"]

\* stream::stream() sets stream_id = -1; dma_task() sets config = 0
InitStream ==
    /\ strm = [stream_id |-> -1, buffer |-> 0, capacity |-> 0, offset |-> 0, size |-> 0, cursor |-> 0]
    /\ dmabusy = FALSE
    /\ spc = Idle
    /\ scall = NoCall
    /\ lastdma = NoCall
    /\ ndma = 0
    /\ nops = 0

InitQuiet ==
    \* no collective operation has been executed
    /\ prog = <<>>
    /\ ip = [p \in Procs |-> 0]
    \* no send has been addressed out of range
    /\ oor = [p \in Procs |-> 0]
    \* program B has sent and received nothing
    /\ outboxB = [p \in Procs |-> <<>>]
    /\ pendB = <<>>
    /\ dataB = [p \in Procs |-> [h \in QHandles |-> <<>>]]
    /\ vecs = 0
    /\ InitSer
    /\ InitProv
    /\ InitStream
    \* no callback has been called
    /\ cbcall = NoCall

InitRest ==
    /\ InitQuiet
    /\ plain = FALSE

\* a world with no queue and no variable yet
Init ==
    /\ InitRest
    /\ InitQueues
    /\ vars_ = [p \in Procs |-> [i \in VIds |-> Null]]
    /\ vimpl = [p \in Procs |-> [v \in VHandles |-> [live |-> FALSE, id_ |-> 0, value |-> 0]]]
    /\ nvctors = 0
    /\ InitRma

\* every processor has declared the variable x: bulk::var<int> x(world)
InitVar ==
    /\ InitRest
    /\ InitQueues
    /\ vars_ = [p \in Procs |-> [i \in VIds |-> IF i = register_variable_([j \in VIds |-> Null]) THEN 1 ELSE Null]]
    /\ vimpl = [p \in Procs |-> [v \in VHandles |->
                   IF v = 1 THEN var_ctor([j \in VIds |-> Null], p)
                            ELSE [live |-> FALSE, id_ |-> 0, value |-> 0]]]
    /\ nvctors = NProcs
    /\ InitRma

\* the queue objects of p the world of p has in its table
Registered(p) == {h \in QHandles : impl[p][h].live /\ queues_[p][impl[p][h].id_] = h}

\* ------------------------------------------------------------- queue operations
\* queue(world): impl_ = std::make_unique<impl>(world)
ConstructQueueUpTo(p, h, budget) ==
    /\ pc[p] = "run"
    /\ ~impl[p][h].live
    /\ nctors < budget
    /\ impl' = [impl EXCEPT ![p][h] = impl_ctor(queues_[p])]
    /\ queues_' = [queues_ EXCEPT ![p][register_queue_(queues_[p])] = h]
    /\ nctors' = nctors + 1
    /\ UNCHANGED <<bvars, vvars, outbox, nsends, lastsent, fed, hadmsgs, freedq>>

ConstructQueue(p, h) == ConstructQueueUpTo(p, h, MaxCtors)

\* ~queue(): the impl is destroyed
DestroyQueue(p, h) ==
    /\ pc[p] = "run"
    /\ impl[p][h].live
    /\ queues_' = [queues_ EXCEPT ![p] = impl_dtor(queues_[p], impl[p][h])]
    /\ impl' = [impl EXCEPT ![p][h] = [live |-> FALSE, id_ |-> 0, data_ |-> <<>>]]
    /\ fed' = [fed EXCEPT ![p] = @ \ {h}]
    /\ hadmsgs' = [hadmsgs EXCEPT ![p] = @ \ {h}]
    /\ freedq' = [freedq EXCEPT ![p] = @ \cup {impl[p][h].id_}]
    /\ UNCHANGED <<bvars, vvars, outbox, nsends, nctors, lastsent>>

\* send that also puts a message for the sender itself straight into its data_
SendAndStore(p, h, t) ==
    /\ pc[p] = "run"
    /\ impl[p][h].live
    /\ ~IsArray(h)
    /\ nsends < MaxSends
    /\ outbox' = [outbox EXCEPT ![p] = Append(@, send_(impl[p][h], t, [tag |-> p, body |-> <<Serial(Len(outbox[p]) + 1)>>]))]
    /\ impl' = [impl EXCEPT ![p][h].data_ =
                  IF t = p THEN Append(@, [tag |-> p, body |-> <<Serial(Len(outbox[p]) + 1)>>]) ELSE @]
    /\ nsends' = nsends + 1
    /\ UNCHANGED <<bvars, vvars, queues_, nctors, lastsent, fed, hadmsgs, freedq>>

\* q(t).send(content...): message_type msg = {args...}; q_.impl_->send_(t_, msg)
\* (on a queue<int, int>; the content is the number of the message in the superstep)
Send(p, h, t) ==
    /\ pc[p] = "run"
    /\ impl[p][h].live
    /\ ~IsArray(h)
    /\ nsends < MaxSends
    /\ outbox' = [outbox EXCEPT ![p] = Append(@, send_(impl[p][h], t, [tag |-> p, body |-> <<Serial(Len(outbox[p]) + 1)>>]))]
    /\ nsends' = nsends + 1
    /\ UNCHANGED <<bvars, vvars, queues_, impl, nctors, lastsent, fed, hadmsgs, freedq>>

\* send of a vector that walks the vector from its last element to its first
SendAllReversed(box, obj, t, msgs) ==
    box \o [i \in 1 .. Len(msgs) |-> send_(obj, t, msgs[Len(msgs) + 1 - i])]

\* q(t).send(std::vector<message_type>): for (auto msg : msgs) q_.impl_->send_(t_, msg)
RECURSIVE SendAll(_, _, _, _)
SendAll(box, obj, t, msgs) ==
    IF msgs = <<>> THEN box
    ELSE SendAll(Append(box, send_(obj, t, Head(msgs))), obj, t, Tail(msgs))

SendVector(p, h, t, n) ==
    /\ pc[p] = "run"
    /\ impl[p][h].live
    /\ ~IsArray(h)
    /\ nsends + n <= MaxSends
    /\ outbox' = [outbox EXCEPT ![p] =
                    SendAll(@, impl[p][h], t, [i \in 1 .. n |-> [tag |-> p, body |-> <<Serial(Len(outbox[p]) + i)>>]])]
    /\ nsends' = nsends + n
    /\ UNCHANGED <<bvars, vvars, queues_, impl, nctors, lastsent, fed, hadmsgs, freedq>>

\* q(t).send_many(msgs, args...): message_type msg = {std::vector<element_type>{}, args...};
\*   q_.impl_->send_many_(t_, msgs.size(), msgs.data(), &msg, sizeof(message_type))
SendMany(p, h, t, n) ==
    /\ pc[p] = "run"
    /\ impl[p][h].live
    /\ IsArray(h)
    /\ nsends < MaxSends
    /\ outbox' = [outbox EXCEPT ![p] =
                    Append(@, send_many_(impl[p][h], t, Len(ArrayOf(n)), ArrayOf(n),
                                         [tag |-> p, body |-> <<>>], SizeofMessage))]
    /\ nsends' = nsends + 1
    /\ UNCHANGED <<bvars, vvars, queues_, impl, nctors, lastsent, fed, hadmsgs, freedq>>

\* ------------------------------------------------------------- variable operations
\* the variable objects of p the world of p has in its table
RegisteredVars(p) == {v \in VHandles : vimpl[p][v].live /\ vars_[p][vimpl[p][v].id_] = v}

\* var<T> x(world)
ConstructVarUpTo(p, v, budget) ==
    /\ pc[p] = "run"
    /\ ~vimpl[p][v].live
    /\ nvctors < budget
    /\ vimpl' = [vimpl EXCEPT ![p][v] = var_ctor(vars_[p], p)]
    /\ vars_' = [vars_ EXCEPT ![p][register_variable_(vars_[p])] = v]
    /\ nvctors' = nvctors + 1
    /\ UNCHANGED <<bvars, qvars, loc, putbox, getbox, futs, nrma, lastputs, lastgets, preval, fedv, freedv>>

\* ~var(): the variable is unregistered
DestroyVar(p, v) ==
    /\ pc[p] = "run"
    /\ vimpl[p][v].live
    /\ vars_' = [vars_ EXCEPT ![p] = unregister_variable_(@, vimpl[p][v].id_)]
    /\ vimpl' = [vimpl EXCEPT ![p][v] = [live |-> FALSE, id_ |-> 0, value |-> 0]]
    /\ fedv' = [fedv EXCEPT ![p] = @ \ {v}]
    /\ freedv' = [freedv EXCEPT ![p] = @ \cup {vimpl[p][v].id_}]
    /\ UNCHANGED <<bvars, qvars, loc, putbox, getbox, futs, nrma, nvctors, lastputs, lastgets, preval>>

\* the program assigns to its local
Mutate(p, c) ==
    /\ pc[p] = "run"
    /\ c # loc[p]
    /\ loc' = [loc EXCEPT ![p] = c]
    /\ UNCHANGED <<bvars, qvars, vars_, vimpl, putbox, getbox, futs, nrma, nvctors, lastputs, lastgets, preval, fedv, freedv>>

\* x(t).put(local)
Put(p, v, t) ==
    /\ pc[p] = "run"
    /\ vimpl[p][v].live
    /\ nrma < MaxRma
    /\ putbox' = [putbox EXCEPT ![p] = Append(@, put_(p, t, vimpl[p][v].id_, loc[p]))]
    /\ nrma' = nrma + 1
    /\ UNCHANGED <<bvars, qvars, vars_, vimpl, loc, getbox, futs, nvctors, lastputs, lastgets, preval, fedv, freedv>>

\* auto f = x(t).get()
Get(p, v, t) ==
    /\ pc[p] = "run"
    /\ vimpl[p][v].live
    /\ nrma < MaxRma
    /\ futs' = [futs EXCEPT ![p] = Append(@, Undef)]
    /\ getbox' = [getbox EXCEPT ![p] = Append(@, get_(t, vimpl[p][v].id_, Len(futs[p]) + 1))]
    /\ nrma' = nrma + 1
    /\ UNCHANGED <<bvars, qvars, vars_, vimpl, loc, putbox, nvctors, lastputs, lastgets, preval, fedv, freedv>>

\* ------------------------------------------------------------- world::sync()
\* A processor enters the barrier: the delivery buffers of its registered queues are cleared
EnterSync(p) ==
    /\ pc[p] = "run"
    /\ entered[p] < MaxSteps
    /\ pc' = [pc EXCEPT ![p] = "sync"]
    /\ entered' = [entered EXCEPT ![p] = @ + 1]
    /\ impl' = [impl EXCEPT ![p] =
                  [h \in QHandles |->
                     IF h \in Registered(p)
                        THEN [impl[p][h] EXCEPT !.data_ = clear_(@)]
                        ELSE impl[p][h]]]
    /\ fed' = [fed EXCEPT ![p] = {}]
    /\ hadmsgs' = [hadmsgs EXCEPT ![p] = {h \in Registered(p) : impl[p][h].data_ # <<>>}]
    /\ UNCHANGED <<done, queues_, outbox, nsends, nctors, lastsent, freedq, vvars>>

\* the registered queues a world can fill through get_buffer_
Copyable ==
    {ph \in Procs \X QHandles :
        /\ ph[2] \in Registered(ph[1])
        /\ CanCopy(Incoming(outbox, ph[1], impl[ph[1]][ph[2]].id_))}

\* The queue objects after the delivery of the outboxes; copy holds the queues
\* the world fills through get_buffer_, the others it fills through the push hooks
Delivered(copy) ==
    [p \in Procs |-> [h \in QHandles |->
        LET obj == impl[p][h] IN
        IF h \in Registered(p)
           THEN LET recs == Incoming(outbox, p, obj.id_)
                IN  [obj EXCEPT !.data_ =
                       IF <<p, h>> \in copy
                          THEN DeliverCopy(@, recs, IsArray(h))
                          ELSE DeliverPush(@, recs)]
           ELSE obj]]

\* The variable objects after the puts of the putboxes
PutsApplied(order) ==
    [p \in Procs |-> [v \in VHandles |->
        IF v \in RegisteredVars(p)
           THEN [vimpl[p][v] EXCEPT !.value =
                    ApplyPuts(@, IncomingPuts(putbox, order, p, vimpl[p][v].id_), loc)]
           ELSE vimpl[p][v]]]

\* The slots of the futures after the gets of the getboxes
GetsSatisfied(before, after) ==
    [p \in Procs |-> [i \in 1 .. Len(futs[p]) |->
        LET gets == {k \in 1 .. Len(getbox[p]) : getbox[p][k].fut = i}
        IN  IF gets = {} THEN futs[p][i]
            ELSE LET r == getbox[p][CHOOSE k \in gets : TRUE]
                     owners == {v \in VHandles :
                                   before[r.src][v].live /\ before[r.src][v].id_ = r.vid}
                 IN  IF owners = {} THEN futs[p][i]
                     ELSE GetValue(before, after, r.src, CHOOSE v \in owners : TRUE)]]

\* The communication of a barrier: puts, gets, then the queues
Communicate ==
    /\ \E order \in SenderOrders :
          /\ vimpl' = PutsApplied(order)
          /\ futs' = GetsSatisfied(vimpl, PutsApplied(order))
    /\ \E copy \in SUBSET Copyable : impl' = Delivered(copy)
    /\ lastsent' = outbox
    /\ outbox' = [p \in Procs |-> <<>>]
    /\ fed' = [p \in Procs |-> Registered(p)]
    /\ lastputs' = putbox
    /\ lastgets' = getbox
    /\ putbox' = [p \in Procs |-> <<>>]
    /\ getbox' = [p \in Procs |-> <<>>]
    /\ preval' = vimpl
    /\ fedv' = [p \in Procs |-> RegisteredVars(p)]
    /\ UNCHANGED <<queues_, nsends, nctors, hadmsgs, freedq, vars_, loc, nrma, nvctors, freedv>>

\* an exchange that starts as soon as one processor waits, and releases the waiting ones
ExchangeEarly ==
    /\ \E p \in Procs : pc[p] = "sync"
    /\ Communicate
    /\ pc' = [p \in Procs |-> IF pc[p] = "sync" THEN "ready" ELSE pc[p]]
    /\ UNCHANGED <<entered, done>>

\* an exchange that forgets to release the last processor
ExchangeLosesOne ==
    /\ \A p \in Procs : pc[p] = "sync"
    /\ Communicate
    /\ pc' = [p \in Procs |-> IF p = NProcs - 1 THEN "sync" ELSE "ready"]
    /\ UNCHANGED <<entered, done>>

\* All processors are inside sync(): the puts are applied, the gets satisfied and
\* every registered queue receives its messages
Exchange ==
    /\ \A p \in Procs : pc[p] = "sync"
    /\ Communicate
    /\ pc' = [p \in Procs |-> "ready"]
    /\ UNCHANGED <<entered, done>>

\* sync() returns
LeaveSync(p) ==
    /\ pc[p] = "ready"
    /\ pc' = [pc EXCEPT ![p] = "run"]
    /\ done' = [done EXCEPT ![p] = @ + 1]
    /\ UNCHANGED <<entered, qvars, vvars>>

Next ==
    \/ \E p \in Procs, h \in QHandles : ConstructQueue(p, h) /\ UNCHANGED ovars
    \/ \E p \in Procs, h \in QHandles : DestroyQueue(p, h) /\ UNCHANGED ovars
    \/ \E p \in Procs, h \in QHandles, t \in Procs : Send(p, h, t) /\ UNCHANGED ovars
    \/ \E p \in Procs, h \in QHandles, t \in Procs, n \in 0 .. MaxSends : SendVector(p, h, t, n) /\ UNCHANGED ovars
    \/ \E p \in Procs, h \in QHandles, t \in Procs, n \in 0 .. MaxArr : SendMany(p, h, t, n) /\ UNCHANGED ovars
    \/ \E p \in Procs : EnterSync(p) /\ UNCHANGED ovars
    \/ Exchange /\ UNCHANGED ovars
    \/ \E p \in Procs : LeaveSync(p) /\ UNCHANGED ovars

Spec == Init /\ [][Next]_vars

\* A program that has declared one variable and issues puts and gets on it
NextVar ==
    \/ \E p \in Procs, c \in LocVals : Mutate(p, c) /\ UNCHANGED ovars
    \/ \E p \in Procs, v \in VHandles, t \in Procs : Put(p, v, t) /\ UNCHANGED ovars
    \/ \E p \in Procs, v \in VHandles, t \in Procs : Get(p, v, t) /\ UNCHANGED ovars
    \/ \E p \in Procs : EnterSync(p) /\ UNCHANGED ovars
    \/ Exchange /\ UNCHANGED ovars
    \/ \E p \in Procs : LeaveSync(p) /\ UNCHANGED ovars

SpecVar == InitVar /\ [][NextVar]_vars

\* A program that only constructs and destroys queues and variables
NextReg ==
    \/ \E p \in Procs, h \in QHandles : ConstructQueueUpTo(p, h, MaxRegCtors) /\ UNCHANGED ovars
    \/ \E p \in Procs, h \in QHandles : DestroyQueue(p, h) /\ UNCHANGED ovars
    \/ \E p \in Procs, v \in VHandles : ConstructVarUpTo(p, v, MaxRegCtors) /\ UNCHANGED ovars
    \/ \E p \in Procs, v \in VHandles : DestroyVar(p, v) /\ UNCHANGED ovars

SpecReg == Init /\ [][NextReg]_vars

\* The barrier makes progress: once all processors wait the exchange runs, and a
\* released processor returns.  Nothing makes a processor call sync().
FairSpec ==
    /\ Init /\ [][Next]_vars
    /\ WF_vars(Exchange /\ UNCHANGED ovars)
    /\ \A p \in Procs : WF_vars(LeaveSync(p) /\ UNCHANGED ovars)

\* ------------------------------------------------------------- what a superstep sent
\* the message a record of an outbox stands for
MessageOf(r) == IF r.kind = "one" THEN r.msg ELSE [r.msg EXCEPT !.body = r.elems]

\* the messages processor s sent to queue id on processor p in the last superstep, in send order
SentTo(s, p, id) ==
    LET recs == SelectSeq(lastsent[s], LAMBDA r : r.dst = p /\ r.qid = id)
    IN  [i \in 1 .. Len(recs) |-> MessageOf(recs[i])]

SentCount(p, id) == SeqSum([i \in 1 .. NProcs |-> Len(SentTo(i - 1, p, id))])

Occurrences(seq, m) == Cardinality({i \in 1 .. Len(seq) : seq[i] = m})

Range(seq) == {seq[i] : i \in 1 .. Len(seq)}

\* C1: after a barrier the delivery buffer of every registered queue on every
\* processor holds as many messages as all processors sent to that queue on that
\* processor during the superstep the barrier closed
C1_Conservation ==
    \A p \in Procs : \A h \in fed[p] :
        Len(impl[p][h].data_) = SentCount(p, impl[p][h].id_)

\* fan-in: every processor sent one message to a queue of processor 0, which holds
\* P messages, while the queue of that id on another processor holds none
C1_Witness ==
    \E h \in fed[0], g \in fed[NProcs - 1] :
        /\ impl[0][h].id_ = impl[NProcs - 1][g].id_
        /\ \A s \in Procs : Len(SentTo(s, 0, impl[0][h].id_)) = 1
        /\ Len(impl[0][h].data_) = NProcs
        /\ impl[NProcs - 1][g].data_ = <<>>

\* C2: after a barrier the messages of one sender appear in a delivery buffer in
\* the order that sender sent them
C2_SenderFifo ==
    \A p \in Procs : \A h \in fed[p] : \A s \in Procs :
        SelectSeq(impl[p][h].data_, LAMBDA m : m.tag = s) = SentTo(s, p, impl[p][h].id_)

\* a buffer holding two different messages of one sender and a message of another
C2_Witness ==
    \E p \in Procs : \E h \in fed[p] : \E s, r \in Procs :
        /\ s # r
        /\ Len(SentTo(s, p, impl[p][h].id_)) = 2
        /\ SentTo(s, p, impl[p][h].id_)[1] # SentTo(s, p, impl[p][h].id_)[2]
        /\ Len(SentTo(r, p, impl[p][h].id_)) = 1
        /\ Len(impl[p][h].data_) = 3

\* C8: a delivery buffer is empty from the start of a barrier until the exchange,
\* and after the barrier it holds exactly the messages of the superstep the barrier
\* closed, none of an earlier one
C8_OnlyLastSuperstep ==
    \A p \in Procs :
        /\ pc[p] = "sync" => \A h \in Registered(p) : impl[p][h].data_ = <<>>
        /\ \A h \in fed[p] :
             LET data == impl[p][h].data_
                 sent == Concat([i \in 1 .. NProcs |-> SentTo(i - 1, p, impl[p][h].id_)])
             IN  \A m \in Range(data) \cup Range(sent) :
                     Occurrences(data, m) = Occurrences(sent, m)

\* a queue that held messages after one barrier and is empty after the next,
\* and one that holds the message of the second superstep alone
C8_Witness ==
    \E p \in Procs : \E h, g \in fed[p] :
        /\ h \in hadmsgs[p] /\ impl[p][h].data_ = <<>>
        /\ g \in hadmsgs[p] /\ Len(impl[p][g].data_) = 1

\* C9: a step that issues a send, a send of a vector or a send_many changes no
\* delivery buffer of any processor
C9_SendFrame ==
    [][nsends' # nsends => \A p \in Procs : \A h \in QHandles : impl'[p][h] = impl[p][h]]_vars

\* a processor holding delivered messages has sent to that same queue of its own
C9_Witness ==
    \E p \in Procs : \E h \in fed[p] :
        /\ impl[p][h].data_ # <<>>
        /\ \E i \in 1 .. Len(outbox[p]) :
               outbox[p][i].dst = p /\ outbox[p][i].qid = impl[p][h].id_

\* C6: no processor has returned from more calls of sync() than any processor has
\* entered, a processor is released only when all have entered, and the delivery
\* buffers of a processor that is not inside sync() do not change
C6_BarrierSafety ==
    /\ [](\A p, q \in Procs :
             /\ done[p] <= entered[q]
             /\ pc[p] = "ready" => entered[q] >= entered[p])
    /\ [][\A p \in Procs : \A h \in QHandles :
             (pc[p] = "run" /\ pc'[p] = "run" /\ impl[p][h].live /\ impl'[p][h].live)
                 => impl'[p][h].data_ = impl[p][h].data_]_vars

\* a processor has sent to another one and waits in sync(), the other one still
\* runs its superstep with an empty buffer
C6_Witness ==
    \E p, q \in Procs : \E h \in Registered(q) :
        /\ pc[p] = "sync" /\ pc[q] = "run" /\ entered[q] < entered[p]
        /\ \E i \in 1 .. Len(outbox[p]) :
               outbox[p][i].dst = q /\ outbox[p][i].qid = impl[q][h].id_
        /\ impl[q][h].data_ = <<>>

\* C7: when all processors have entered their k-th sync() every one of them
\* returns from it, and a processor returns from its k-th sync() only when all
\* processors have entered theirs
C7_BarrierLiveness ==
    /\ \A k \in 1 .. MaxSteps :
          (\A q \in Procs : entered[q] >= k) ~> (\A p \in Procs : done[p] >= k)
    /\ [][\A p \in Procs : done'[p] > done[p] =>
             \A q \in Procs : entered[q] >= done'[p]]_vars

\* every processor has returned from its first sync(), and one waits in its
\* second for a processor that has not entered it
C7_Witness ==
    /\ \A p \in Procs : done[p] >= 1
    /\ \E p, q \in Procs : pc[p] = "sync" /\ entered[p] = 2 /\ entered[q] = 1

\* ------------------------------------------------------------- what a superstep put and got
\* the values processor s put to variable id of processor p in the last superstep, in call order
PutsTo(s, p, id) ==
    LET recs == SelectSeq(lastputs[s], LAMBDA r : r.dst = p /\ r.vid = id)
    IN  [i \in 1 .. Len(recs) |-> recs[i].val]

Putters(p, id) == {s \in Procs : PutsTo(s, p, id) # <<>>}

Last(seq) == seq[Len(seq)]

\* C3: after a barrier a variable holds the value it had when the barrier began
\* if no put was addressed to it, and otherwise the last value of some source,
\* so that the puts of one source have been applied in the order it issued them
C3_PutsApplied ==
    \A p \in Procs : \A v \in fedv[p] :
        LET id == vimpl[p][v].id_ IN
        /\ Putters(p, id) = {} => vimpl[p][v].value = preval[p][v].value
        /\ Putters(p, id) # {} =>
               vimpl[p][v].value \in {Last(PutsTo(s, p, id)) : s \in Putters(p, id)}

\* one source put two different values to a variable, which holds the second;
\* and a variable nobody put to keeps its value
C3_Witness ==
    /\ \E p \in Procs : \E v \in fedv[p] : \E s \in Procs :
          /\ Putters(p, vimpl[p][v].id_) = {s}
          /\ Len(PutsTo(s, p, vimpl[p][v].id_)) = 2
          /\ PutsTo(s, p, vimpl[p][v].id_)[1] # PutsTo(s, p, vimpl[p][v].id_)[2]
          /\ vimpl[p][v].value = PutsTo(s, p, vimpl[p][v].id_)[2]
    /\ \E p \in Procs : \E v \in fedv[p] :
          Putters(p, vimpl[p][v].id_) = {} /\ vimpl[p][v].value = preval[p][v].value

\* C4: after a barrier the future of a get holds the value the variable had on
\* its owner when the barrier began, whatever was put to it in the same superstep
C4_GetReadsPrePut ==
    \A p \in Procs : \A k \in 1 .. Len(lastgets[p]) :
        LET r == lastgets[p][k] IN
        \A v \in VHandles :
            (preval[r.src][v].live /\ preval[r.src][v].id_ = r.vid)
                => futs[p][r.fut] = preval[r.src][v].value

\* a get and a put on the same variable in one superstep: the variable holds the
\* value put, the future the value from before
C4_Witness ==
    \E p \in Procs : \E k \in 1 .. Len(lastgets[p]) :
        LET r == lastgets[p][k] IN
        \E v \in fedv[r.src] :
            /\ vimpl[r.src][v].id_ = r.vid
            /\ Putters(r.src, r.vid) # {}
            /\ vimpl[r.src][v].value # preval[r.src][v].value
            /\ futs[p][r.fut] = preval[r.src][v].value
            /\ futs[p][r.fut] # vimpl[r.src][v].value

\* C5: a variable that received a single put in a superstep holds after the
\* barrier the value the argument had at the call, whatever the source assigned
\* to the argument afterwards
C5_PutCapturesAtCall ==
    \A p \in Procs : \A v \in fedv[p] : \A s \in Procs :
        LET id == vimpl[p][v].id_ IN
        (Putters(p, id) = {s} /\ Len(PutsTo(s, p, id)) = 1)
            => vimpl[p][v].value = PutsTo(s, p, id)[1]

\* the source changed its local between the put and its sync(): the variable holds
\* the value of the call, not the one the local had at the barrier
C5_Witness ==
    \E p, s \in Procs : \E v \in fedv[p] :
        LET id == vimpl[p][v].id_ IN
        /\ Putters(p, id) = {s} /\ Len(PutsTo(s, p, id)) = 1
        /\ pc[s] = "ready"
        /\ loc[s] # PutsTo(s, p, id)[1]
        /\ vimpl[p][v].value = PutsTo(s, p, id)[1]

\* ------------------------------------------------------------- registration
LiveQueues(p) == {h \in QHandles : impl[p][h].live}
LiveVars(p) == {v \in VHandles : vimpl[p][v].live}

\* C10: two live objects of one kind on one processor never hold the same id and
\* the world has each under its id; a construction gives the new object the lowest
\* id no live object of its kind holds; a live object keeps its id
C10_Registration ==
    /\ [](\A p \in Procs :
             /\ \A h, g \in LiveQueues(p) : impl[p][h].id_ = impl[p][g].id_ => h = g
             /\ \A h \in LiveQueues(p) : queues_[p][impl[p][h].id_] = h
             /\ \A v, w \in LiveVars(p) : vimpl[p][v].id_ = vimpl[p][w].id_ => v = w
             /\ \A v \in LiveVars(p) : vars_[p][vimpl[p][v].id_] = v)
    /\ [][\A p \in Procs :
             /\ \A h \in QHandles :
                   /\ (~impl[p][h].live /\ impl'[p][h].live) =>
                          /\ impl'[p][h].id_ \notin {impl[p][g].id_ : g \in LiveQueues(p)}
                          /\ \A i \in 0 .. (impl'[p][h].id_ - 1) :
                                 i \in {impl[p][g].id_ : g \in LiveQueues(p)}
                   /\ (impl[p][h].live /\ impl'[p][h].live) => impl'[p][h].id_ = impl[p][h].id_
             /\ \A v \in VHandles :
                   /\ (~vimpl[p][v].live /\ vimpl'[p][v].live) =>
                          /\ vimpl'[p][v].id_ \notin {vimpl[p][w].id_ : w \in LiveVars(p)}
                          /\ \A i \in 0 .. (vimpl'[p][v].id_ - 1) :
                                 i \in {vimpl[p][w].id_ : w \in LiveVars(p)}
                   /\ (vimpl[p][v].live /\ vimpl'[p][v].live) => vimpl'[p][v].id_ = vimpl[p][v].id_]_vars

\* a queue holds an id that was freed before while a queue with a higher id
\* lives on, and so does a variable
C10_Witness ==
    /\ \E p \in Procs : \E h, g \in LiveQueues(p) :
          impl[p][h].id_ \in freedq[p] /\ impl[p][h].id_ < impl[p][g].id_
    /\ \E p \in Procs : \E v, w \in LiveVars(p) :
          vimpl[p][v].id_ \in freedv[p] /\ vimpl[p][v].id_ < vimpl[p][w].id_

\* ------------------------------------------------------------- collective programs
\* Every processor runs the same program text.  Its constructions, its destructions
\* and its calls of sync() are collective: prog holds the ones some processor has
\* reached, and a processor behind the first one executes the operation prog holds
\* at its position.  Sends and puts are issued by each processor as it likes.

\* the content of a message or a put names the object it is sent through
Stamp(x) == 10 * x

\* the object a content names
Named(c) == c \div 10

\* constructions are bounded by the length of the program alone
CollBudget == NProcs * MaxProg

\* processor p executes op as its next collective operation
Follows(p, op) ==
    /\ IF ip[p] < Len(prog)
          THEN prog[ip[p] + 1] = op /\ prog' = prog
          ELSE Len(prog) < MaxProg /\ prog' = Append(prog, op)
    /\ ip' = [ip EXCEPT ![p] = @ + 1]

CollConstructQueue(p, h) ==
    ConstructQueueUpTo(p, h, CollBudget) /\ Follows(p, <<"ctorq", h>>) /\ UNCHANGED rvars

CollDestroyQueue(p, h) ==
    DestroyQueue(p, h) /\ Follows(p, <<"dtorq", h>>) /\ UNCHANGED rvars

CollConstructVar(p, v) ==
    ConstructVarUpTo(p, v, CollBudget) /\ Follows(p, <<"ctorv", v>>) /\ UNCHANGED rvars

CollDestroyVar(p, v) ==
    DestroyVar(p, v) /\ Follows(p, <<"dtorv", v>>) /\ UNCHANGED rvars

CollSync(p) ==
    EnterSync(p) /\ Follows(p, <<"sync", 0>>) /\ UNCHANGED rvars

\* q(t).send(Stamp(q)) on a queue<int, int>, q(t).send_many({Stamp(q)}, p) on a queue<int[], int>
SendNamed(p, h, t) ==
    /\ pc[p] = "run"
    /\ impl[p][h].live
    /\ nsends + nrma < MaxCollMsgs
    /\ outbox' = [outbox EXCEPT ![p] = Append(@,
           IF IsArray(h)
              THEN send_many_(impl[p][h], t, 1, <<Stamp(h)>>, [tag |-> p, body |-> <<>>], SizeofMessage)
              ELSE send_(impl[p][h], t, [tag |-> p, body |-> <<Stamp(h)>>]))]
    /\ nsends' = nsends + 1
    /\ UNCHANGED <<bvars, vvars, queues_, impl, nctors, lastsent, fed, hadmsgs, freedq>>

\* x(t).put(Stamp(x))
PutNamed(p, v, t) ==
    /\ pc[p] = "run"
    /\ vimpl[p][v].live
    /\ nsends + nrma < MaxCollMsgs
    /\ putbox' = [putbox EXCEPT ![p] = Append(@, put_(p, t, vimpl[p][v].id_, Stamp(v)))]
    /\ nrma' = nrma + 1
    /\ UNCHANGED <<bvars, qvars, vars_, vimpl, loc, getbox, futs, nvctors, lastputs, lastgets, preval, fedv, freedv>>

NextColl ==
    \/ \E p \in Procs, h \in QHandles : CollConstructQueue(p, h)
    \/ \E p \in Procs, h \in QHandles : CollDestroyQueue(p, h)
    \/ \E p \in Procs, v \in VHandles : CollConstructVar(p, v)
    \/ \E p \in Procs, v \in VHandles : CollDestroyVar(p, v)
    \/ \E p \in Procs : CollSync(p)
    \/ \E p \in Procs, h \in QHandles, t \in Procs : SendNamed(p, h, t) /\ UNCHANGED ovars
    \/ \E p \in Procs, v \in VHandles, t \in Procs : PutNamed(p, v, t) /\ UNCHANGED ovars
    \/ Exchange /\ UNCHANGED ovars
    \/ \E p \in Procs : LeaveSync(p) /\ UNCHANGED ovars

SpecColl == Init /\ [][NextColl]_vars

\* the values put to variable id on processor t in the superstep that is ending
PutValues(t, id) ==
    {putbox[s][i].val : <<s, i>> \in {si \in Procs \X (1 .. MaxRma) :
                                       /\ si[2] <= Len(putbox[si[1]])
                                       /\ putbox[si[1]][si[2]].dst = t
                                       /\ putbox[si[1]][si[2]].vid = id}}

\* C11: processors that have executed the same collective operations hold every
\* queue and every variable under the same id; and at a barrier a message sent
\* through a queue that holds on its sender the id the message carries enters the
\* buffer of the same queue on the destination, a put through a variable likewise
\* is applied to the same variable on the destination
C11_CollectiveIds ==
    /\ [](\A p, q \in Procs : ip[p] = ip[q] =>
             /\ \A h \in QHandles :
                   /\ impl[p][h].live = impl[q][h].live
                   /\ impl[p][h].live => impl[p][h].id_ = impl[q][h].id_
             /\ \A v \in VHandles :
                   /\ vimpl[p][v].live = vimpl[q][v].live
                   /\ vimpl[p][v].live => vimpl[p][v].id_ = vimpl[q][v].id_)
    /\ [][((\A p \in Procs : pc[p] = "sync") /\ (\A p \in Procs : pc'[p] = "ready")) =>
            \A s \in Procs :
               /\ \A i \in 1 .. Len(outbox[s]) :
                     LET r == outbox[s][i]
                         m == MessageOf(r)
                         h == Named(m.body[1])
                         t == r.dst
                     IN  (impl[s][h].live /\ impl[s][h].id_ = r.qid) =>
                             /\ impl[t][h].live /\ impl[t][h].id_ = r.qid
                             /\ m \in Range(impl'[t][h].data_)
               /\ \A i \in 1 .. Len(putbox[s]) :
                     LET r == putbox[s][i]
                         v == Named(r.val)
                         t == r.dst
                     IN  (vimpl[s][v].live /\ vimpl[s][v].id_ = r.vid) =>
                             /\ vimpl[t][v].live /\ vimpl[t][v].id_ = r.vid
                             /\ vimpl'[t][v].value \in PutValues(t, r.vid)]_vars

\* after a collective destruction freed id 0, a queue that holds id 1 on both
\* processors has received the message another processor sent through it
C11_Witness ==
    \E s, t \in Procs : \E h \in fed[t] :
        /\ s # t
        /\ ip[s] = ip[t]
        /\ 0 \in freedq[t]
        /\ impl[t][h].id_ = 1 /\ impl[s][h].id_ = 1
        /\ [tag |-> s, body |-> <<Stamp(h)>>] \in Range(impl[t][h].data_)

\* ------------------------------------------------------------- queues and variables together
\* the table of a world after the construction of the queue objects 1 .. k in this order
RECURSIVE DeclaredQueues(_)
DeclaredQueues(k) ==
    IF k = 0 THEN [i \in QIds |-> Null]
    ELSE LET table == DeclaredQueues(k - 1)
         IN  [table EXCEPT ![register_queue_(table)] = k]

\* every processor has declared all its queue objects and the variable x:
\*   bulk::queue<int, int> q1(world); bulk::queue<int[], int> q2(world); ... bulk::var<int> x(world)
DeclWorld ==
    /\ pc = [p \in Procs |-> "run"]
    /\ entered = [p \in Procs |-> 0]
    /\ done = [p \in Procs |-> 0]
    /\ queues_ = [p \in Procs |-> DeclaredQueues(NQObjs)]
    /\ impl = [p \in Procs |-> [h \in QHandles |-> impl_ctor(DeclaredQueues(h - 1))]]
    /\ outbox = [p \in Procs |-> <<>>]
    /\ nsends = 0
    /\ nctors = NProcs * NQObjs
    /\ lastsent = [p \in Procs |-> <<>>]
    /\ fed = [p \in Procs |-> {}]
    /\ hadmsgs = [p \in Procs |-> {}]
    /\ freedq = [p \in Procs |-> {}]
    /\ vars_ = [p \in Procs |-> [i \in VIds |-> IF i = register_variable_([j \in VIds |-> Null]) THEN 1 ELSE Null]]
    /\ vimpl = [p \in Procs |-> [v \in VHandles |->
                   IF v = 1 THEN var_ctor([j \in VIds |-> Null], p)
                            ELSE [live |-> FALSE, id_ |-> 0, value |-> 0]]]
    /\ nvctors = NProcs
    /\ InitRma

InitDecl == InitRest /\ DeclWorld

\* the communication a run of NextBoth may still issue
BothBudget == nsends + nrma < MaxBothMsgs

NextBoth ==
    \/ \E p \in Procs, h \in QHandles, t \in Procs : BothBudget /\ Send(p, h, t) /\ UNCHANGED ovars
    \/ \E p \in Procs, h \in QHandles, t \in Procs, n \in 0 .. MaxArr : BothBudget /\ SendMany(p, h, t, n) /\ UNCHANGED ovars
    \/ \E p \in Procs, v \in VHandles, t \in Procs : BothBudget /\ Put(p, v, t) /\ UNCHANGED ovars
    \/ \E p \in Procs, v \in VHandles, t \in Procs : BothBudget /\ Get(p, v, t) /\ UNCHANGED ovars
    \/ \E p \in Procs : EnterSync(p) /\ UNCHANGED ovars
    \/ Exchange /\ UNCHANGED ovars
    \/ \E p \in Procs : LeaveSync(p) /\ UNCHANGED ovars

SpecBoth == InitDecl /\ [][NextBoth]_vars

\* no processor issued a send, a put or a get in the superstep the last barrier closed
QuietSuperstep ==
    \A p \in Procs : lastsent[p] = <<>> /\ lastputs[p] = <<>> /\ lastgets[p] = <<>>

\* C12: a barrier that closes a superstep in which no processor issued a send, a
\* put or a get leaves every registered queue with an empty delivery buffer and
\* changes no variable and no future; after it every queue has size 0 and every
\* variable the value it had when that barrier began
C12_DoubleBarrier ==
    /\ [](QuietSuperstep =>
             \A p \in Procs :
                /\ \A h \in fed[p] : Len(impl[p][h].data_) = 0
                /\ \A v \in fedv[p] : vimpl[p][v].value = preval[p][v].value)
    /\ [][((\A p \in Procs : pc[p] = "sync") /\ (\A p \in Procs : pc'[p] = "ready")
             /\ (\A p \in Procs : outbox[p] = <<>> /\ putbox[p] = <<>> /\ getbox[p] = <<>>)) =>
                /\ \A p \in Procs : \A h \in Registered(p) : impl'[p][h].data_ = <<>>
                /\ vimpl' = vimpl
                /\ futs' = futs]_vars

\* the first barrier delivered a message, applied a put and satisfied a get; all
\* processors are through the exchange of a second barrier with nothing issued in
\* between: the queue is empty, the variable and the future are as the first left them
C12_Witness ==
    /\ \A p \in Procs : entered[p] = 2 /\ pc[p] = "ready"
    /\ QuietSuperstep
    /\ \E p \in Procs : \E h \in hadmsgs[p] : h \in fed[p] /\ impl[p][h].data_ = <<>>
    /\ \E p \in Procs : \E v \in fedv[p] : vimpl[p][v].value # p /\ vimpl[p][v].value = preval[p][v].value
    /\ \E p \in Procs : Len(futs[p]) = 1 /\ futs[p][1] # Undef

\* ------------------------------------------------------------- sends to a processor that does not exist
\* the processor ids a program may pass to q(t): queue::operator() and
\* queue::impl::send_ hand t to world::send_ as it is
Targets == -1 .. NProcs

\* a world that only rejects negative destinations
InRangeLoose(t) == t >= 0

\* world::send_: the destination is a processor of the world
InRange(t) == t \in Procs

\* q(t).send(content): world::send_ takes the message, or aborts the run of the
\* processor when t is no processor of the world
SendTo(p, h, t) ==
    /\ oor' = [oor EXCEPT ![p] = IF t \in Procs THEN @ ELSE @ + 1]
    /\ IF InRange(t)
          THEN Send(p, h, t)
          ELSE /\ pc[p] = "run"
               /\ impl[p][h].live
               /\ ~IsArray(h)
               /\ nsends < MaxSends
               /\ pc' = [pc EXCEPT ![p] = "aborted"]
               /\ nsends' = nsends + 1
               /\ UNCHANGED <<entered, done, vvars, queues_, impl, outbox, nctors, lastsent, fed, hadmsgs, freedq>>
    /\ UNCHANGED <<cvars, dvars, avars, xvars>>

NextErr ==
    \/ \E p \in Procs, h \in QHandles, t \in Targets : SendTo(p, h, t)
    \/ \E p \in Procs : EnterSync(p) /\ UNCHANGED ovars
    \/ Exchange /\ UNCHANGED ovars
    \/ \E p \in Procs : LeaveSync(p) /\ UNCHANGED ovars

SpecErr == InitDecl /\ [][NextErr]_vars

\* C13: a processor that has sent to a processor id outside [0, P) is aborted, it
\* stays aborted and passes nothing more to the world; no message addressed outside
\* [0, P) waits for a barrier, and every message in a delivery buffer is one that
\* was sent to that queue on that processor
C13_OutOfRangeFatal ==
    /\ [](\A p \in Procs :
             /\ oor[p] > 0 => pc[p] = "aborted"
             /\ \A i \in 1 .. Len(outbox[p]) : outbox[p][i].dst \in Procs
             /\ \A i \in 1 .. Len(lastsent[p]) : lastsent[p][i].dst \in Procs
             /\ \A h \in fed[p] : \A m \in Range(impl[p][h].data_) :
                    \E s \in Procs : m \in Range(SentTo(s, p, impl[p][h].id_)))
    /\ [][\A p \in Procs : pc[p] = "aborted" =>
              pc'[p] = "aborted" /\ outbox'[p] = outbox[p] /\ impl'[p] = impl[p]]_vars

\* after a first barrier that delivered a message to it, a processor sent to a
\* processor that does not exist and is aborted; another one waits in its second sync()
C13_Witness ==
    \E p, q \in Procs :
        /\ pc[p] = "aborted" /\ oor[p] = 1 /\ done[p] = 1
        /\ \E h \in fed[p] : impl[p][h].data_ # <<>>
        /\ pc[q] = "sync" /\ entered[q] = 2

\* ------------------------------------------------------------- a vector of messages and single sends
\* Two programs run side by side on the same world.  Program A is the model's
\* program; program B is A with every q(t).send(vector) replaced by the single
\* sends q(t).send(vector[0]); q(t).send(vector[1]); ...  Every other operation is
\* the same in both.  B's queues hold the ids of A's.

\* program A sends a vector; B has its elements to send
VecSend(p, h, t, n) ==
    /\ pendB = <<>>
    /\ SendVector(p, h, t, n)
    /\ pendB' = [i \in 1 .. n |->
                   [p |-> p, h |-> h, t |-> t, msg |-> [tag |-> p, body |-> <<Serial(Len(outbox[p]) + i)>>]]]
    /\ vecs' = vecs + n
    /\ UNCHANGED <<cvars, evars, avars, xvars, outboxB, dataB>>

\* program B sends the next element by itself: message_type msg = {args...}; q_.impl_->send_(t_, msg)
SingleB ==
    /\ pendB # <<>>
    /\ LET x == Head(pendB)
       IN  outboxB' = [outboxB EXCEPT ![x.p] = Append(@, send_(impl[x.p][x.h], x.t, x.msg))]
    /\ pendB' = Tail(pendB)
    /\ UNCHANGED <<bvars, qvars, vvars, cvars, evars, avars, xvars, dataB, vecs>>

\* both programs send a single message
SendBoth(p, h, t) ==
    /\ pendB = <<>>
    /\ Send(p, h, t)
    /\ outboxB' = [outboxB EXCEPT ![p] =
                     Append(@, send_(impl[p][h], t, [tag |-> p, body |-> <<Serial(Len(outboxB[p]) + 1)>>]))]
    /\ UNCHANGED <<cvars, evars, avars, xvars, pendB, dataB, vecs>>

\* both programs call sync()
EnterSyncBoth(p) ==
    /\ pendB = <<>>
    /\ EnterSync(p)
    /\ dataB' = [dataB EXCEPT ![p] =
                   [h \in QHandles |-> IF h \in Registered(p) THEN clear_(dataB[p][h]) ELSE dataB[p][h]]]
    /\ UNCHANGED <<cvars, evars, avars, xvars, outboxB, pendB, vecs>>

\* the barrier of both programs delivers what each has sent
ExchangeBoth ==
    /\ Exchange
    /\ dataB' = [p \in Procs |-> [h \in QHandles |->
                   IF h \in Registered(p)
                      THEN DeliverPush(dataB[p][h], Incoming(outboxB, p, impl[p][h].id_))
                      ELSE dataB[p][h]]]
    /\ outboxB' = [p \in Procs |-> <<>>]
    /\ UNCHANGED <<cvars, evars, avars, xvars, pendB, vecs>>

NextVec ==
    \/ \E p \in Procs, h \in QHandles, t \in Procs, n \in 0 .. MaxSends : VecSend(p, h, t, n)
    \/ SingleB
    \/ \E p \in Procs, h \in QHandles, t \in Procs : SendBoth(p, h, t)
    \/ \E p \in Procs : EnterSyncBoth(p)
    \/ ExchangeBoth
    \/ \E p \in Procs : LeaveSync(p) /\ UNCHANGED ovars

SpecVec == InitDecl /\ [][NextVec]_vars

\* C14: once program B has sent the elements of a vector one by one, the same
\* messages wait for the barrier in both programs in the same order, and the
\* delivery buffers of both programs hold the same messages in the same order
C14_VectorIsSingles ==
    /\ pendB = <<>> => outboxB = outbox
    /\ \A p \in Procs : \A h \in QHandles : impl[p][h].data_ = dataB[p][h]

\* a barrier has delivered a vector of two messages and a single message to one queue
C14_Witness ==
    \E p \in Procs : \E h \in fed[p] :
        /\ vecs = 2
        /\ Len(impl[p][h].data_) = 3
        /\ \E s \in Procs : Len(SentTo(s, p, impl[p][h].id_)) = 3
        /\ dataB[p][h] = impl[p][h].data_

\* ------------------------------------------------------------- array-valued messages
\* the null pointer send_many passes for the tail of a queue<int[]>; nothing reads through it
Nullptr == [tag |-> -1, body |-> <<>>]

\* q(t).send_many(msgs, p) on a queue<int[], int>
SendManyTail(p, h, t, n) ==
    /\ ~plain
    /\ SendMany(p, h, t, n)

\* q(t).send_many(msgs) on a queue<int[]>:
\*   q_.impl_->send_many_(t_, msgs.size(), msgs.data(), nullptr, 0)
SendManyPlain(p, h, t, n) ==
    /\ plain
    /\ pc[p] = "run"
    /\ impl[p][h].live
    /\ IsArray(h)
    /\ nsends < MaxSends
    /\ outbox' = [outbox EXCEPT ![p] =
                    Append(@, send_many_(impl[p][h], t, Len(ArrayOf(n)), ArrayOf(n), Nullptr, 0))]
    /\ nsends' = nsends + 1
    /\ UNCHANGED <<bvars, vvars, queues_, impl, nctors, lastsent, fed, hadmsgs, freedq>>

InitMany ==
    /\ InitQuiet
    /\ plain \in BOOLEAN
    /\ DeclWorld

NextMany ==
    \/ \E p \in Procs, h \in QHandles, t \in Procs, n \in 0 .. MaxElems : SendManyTail(p, h, t, n) /\ UNCHANGED ovars
    \/ \E p \in Procs, h \in QHandles, t \in Procs, n \in 0 .. MaxElems : SendManyPlain(p, h, t, n) /\ UNCHANGED ovars
    \/ \E p \in Procs : EnterSync(p) /\ UNCHANGED ovars
    \/ Exchange /\ UNCHANGED ovars
    \/ \E p \in Procs : LeaveSync(p) /\ UNCHANGED ovars

SpecMany == InitMany /\ [][NextMany]_vars

\* the calls of send_many addressed to queue id on processor p in the last
\* superstep, the senders in the order of delivery
ManyTo(p, id) ==
    Concat([s \in 1 .. NProcs |->
              SelectSeq(lastsent[s - 1], LAMBDA r : r.dst = p /\ r.qid = id /\ r.kind = "many")])

\* C15: after a barrier the delivery buffer of an array queue holds one message for
\* every send_many addressed to it, whatever the number of elements; the message
\* holds the elements of the call in their order, and its tail field is the one
\* the call gave
C15_SendManyOneMessage ==
    \A p \in Procs : \A h \in fed[p] :
        IsArray(h) =>
            LET calls == ManyTo(p, impl[p][h].id_)
                data == impl[p][h].data_
            IN  /\ Len(data) = Len(calls)
                /\ \A i \in 1 .. Len(calls) :
                      /\ i <= Len(data)
                      /\ data[i].body = calls[i].elems
                      /\ Len(data[i].body) = calls[i].count
                      /\ ~plain => data[i].tag = calls[i].msg.tag

\* one sender made two calls to one queue, the first with three elements and the
\* second with none: the buffer holds two messages, {10, 20, 30} and {}, with the tail given
C15_Witness ==
    \E p, s \in Procs : \E h \in fed[p] :
        /\ ~plain
        /\ p # s
        /\ Len(impl[p][h].data_) = 2
        /\ impl[p][h].data_[1] = [tag |-> s, body |-> <<10, 20, 30>>]
        /\ impl[p][h].data_[2] = [tag |-> s, body |-> <<>>]


\* ---------------------------------------------------------------------------
\* Serialization: scale, memory_buffer (dma.hpp 373-442)
\* ---------------------------------------------------------------------------

\* sizeof(int) and sizeof(char) on the targets of the library
SizeofInt == 4
SizeofChar == 1

\* a value is a record: kind "fix" (a T of sizeof(T) = width, data its bytes),
\* "str" (a std::string, data its characters), "vec" (a std::vector<T>, data
\* its elements, each the width bytes of a T)
FixVal(w, bs) == [kind |-> "fix", width |-> w, data |-> bs]
StrVal(cs) == [kind |-> "str", width |-> SizeofChar, data |-> cs]
VecVal(w, xs) == [kind |-> "vec", width |-> w, data |-> xs]

\* the values a program serializes: chars and ints, strings of up to MaxStr
\* characters 'A' and '\0', vectors of up to MaxVec chars or ints
SerValues ==
    LET SeqsUpTo(S, n) == UNION {[1 .. k -> S] : k \in 0 .. n}
        Chars == {<<65>>, <<0>>}
        Ints == {<<1, 0, 0, 0>>, <<255, 255, 255, 255>>}
    IN  {FixVal(SizeofChar, c) : c \in Chars} \cup {FixVal(SizeofInt, x) : x \in Ints}
            \cup {StrVal(cs) : cs \in SeqsUpTo({0, 65}, MaxStr)}
            \cup {VecVal(SizeofChar, xs) : xs \in SeqsUpTo(Chars, MaxVec)}
            \cup {VecVal(SizeofInt, xs) : xs \in SeqsUpTo(Ints, MaxVec)}

\* the object representation of an int: four bytes, least significant first
EncodeInt(n) == <<n % 256, (n \div 256) % 256, (n \div 65536) % 256, (n \div 16777216) % 256>>

DecodeInt(bs) ==
    bs[1] + 256 * bs[2] + 65536 * bs[3]
        + 16777216 * (IF bs[4] >= 128 THEN bs[4] - 256 ELSE bs[4])

RECURSIVE Flatten(_)
Flatten(xs) == IF xs = <<>> THEN <<>> ELSE Head(xs) \o Flatten(Tail(xs))

scale_or_noterm(size, v) ==
    CASE v.kind = "fix" -> size + v.width
      [] v.kind = "str" -> size + Len(v.data) * SizeofChar
      [] v.kind = "vec" -> size + SizeofInt + Len(v.data) * v.width

\* scale::operator| : the three overloads
scale_or(size, v) ==
    CASE v.kind = "fix" -> size + v.width
      [] v.kind = "str" -> size + (Len(v.data) + 1) * SizeofChar
      [] v.kind = "vec" -> size + SizeofInt + Len(v.data) * v.width

\* memcpy(buffer.get() + index, &value, sizeof(T)); index += sizeof(T);
\* bytes that fall past the end of buffer are not kept
Poke(mb, bs) ==
    [buffer |-> [k \in 1 .. Len(mb.buffer) |->
                    IF k > mb.index /\ k <= mb.index + Len(bs)
                    THEN bs[k - mb.index] ELSE mb.buffer[k]],
     index |-> mb.index + Len(bs)]

\* the bytes memory_buffer::operator<< stores for a value
Stored(v) ==
    CASE v.kind = "fix" -> v.data
      [] v.kind = "str" -> v.data \o <<0>>
      [] v.kind = "vec" -> EncodeInt(Len(v.data)) \o Flatten(v.data)

\* memory_buffer::operator<< : the three overloads
membuf_write(mb, v) == Poke(mb, Stored(v))

\* the position of the first '\0' after index, 0 when buffer holds none
FirstNul(mb) ==
    LET nuls == {k \in mb.index + 1 .. Len(mb.buffer) : mb.buffer[k] = 0}
    IN  IF nuls = {} THEN 0 ELSE CHOOSE k \in nuls : \A j \in nuls : k <= j

\* the element count operator>> reads in front of a vector
CountAt(mb) == DecodeInt(SubSeq(mb.buffer, mb.index + 1, mb.index + SizeofInt))

\* TRUE when operator>> of a value of v's type stays inside buffer
ReadInside(mb, v) ==
    CASE v.kind = "fix" -> mb.index + v.width <= Len(mb.buffer)
      [] v.kind = "str" -> FirstNul(mb) # 0
      [] v.kind = "vec" ->
            /\ mb.index + SizeofInt <= Len(mb.buffer)
            /\ CountAt(mb) >= 0
            /\ CountAt(mb) <= Len(mb.buffer)
            /\ mb.index + SizeofInt + CountAt(mb) * v.width <= Len(mb.buffer)

\* memory_buffer::operator>> : the value read, of the type of v
membuf_read(mb, v) ==
    CASE v.kind = "fix" -> FixVal(v.width, SubSeq(mb.buffer, mb.index + 1, mb.index + v.width))
      [] v.kind = "str" -> StrVal(SubSeq(mb.buffer, mb.index + 1, FirstNul(mb) - 1))
      [] v.kind = "vec" ->
            VecVal(v.width,
                   [k \in 1 .. CountAt(mb) |->
                       SubSeq(mb.buffer,
                              mb.index + SizeofInt + (k - 1) * v.width + 1,
                              mb.index + SizeofInt + k * v.width)])

\* memory_buffer::operator>> : the index it leaves
membuf_skip(mb, v) ==
    CASE v.kind = "fix" -> mb.index + v.width
      [] v.kind = "str" -> mb.index + (Len(membuf_read(mb, v).data) + 1) * SizeofChar
      [] v.kind = "vec" -> mb.index + SizeofInt + CountAt(mb) * v.width

SerFrame == UNCHANGED <<wvars, pvars, svars, kvars>>

\* scale | v, for the next value of the program
ScaleValue(v) ==
    /\ sphase = "scale"
    /\ Len(vals) < MaxVals
    /\ vals' = Append(vals, v)
    /\ ssize' = scale_or(ssize, v)
    /\ UNCHANGED <<membuf, nwritten, readback, sphase, wend, overrun>>
    /\ SerFrame

\* memory_buffer(size) with the scaled size: make_unique<char[]> zeroes the bytes
Allocate ==
    /\ sphase = "scale"
    /\ membuf' = [buffer |-> [k \in 1 .. ssize |-> 0], index |-> 0]
    /\ sphase' = "write"
    /\ UNCHANGED <<vals, nwritten, readback, ssize, wend, overrun>>
    /\ SerFrame

\* imembuf | v : membuf << v for the next value
WriteNext ==
    /\ sphase = "write"
    /\ nwritten < Len(vals)
    /\ LET v == vals[nwritten + 1]
       IN  /\ membuf' = membuf_write(membuf, v)
           /\ overrun' = (overrun \/ membuf.index + Len(Stored(v)) > Len(membuf.buffer))
    /\ nwritten' = nwritten + 1
    /\ UNCHANGED <<vals, readback, sphase, ssize, wend>>
    /\ SerFrame

\* memory_buffer(size, data): a reader over the bytes written, index = 0
Rewind ==
    /\ sphase = "write"
    /\ nwritten = Len(vals)
    /\ wend' = membuf.index
    /\ membuf' = [membuf EXCEPT !.index = 0]
    /\ sphase' = "read"
    /\ UNCHANGED <<vals, nwritten, readback, ssize, overrun>>
    /\ SerFrame

\* omembuf | v : membuf >> v for the next value, of the type it was written with;
\* an access past the end of buffer has no defined outcome: the run faults, or
\* goes on with bytes that were never written
ReadNext ==
    /\ sphase = "read"
    /\ Len(readback) < Len(vals)
    /\ LET v == vals[Len(readback) + 1]
       IN  IF ReadInside(membuf, v)
           THEN /\ readback' = Append(readback, membuf_read(membuf, v))
                /\ membuf' = [membuf EXCEPT !.index = membuf_skip(membuf, v)]
                /\ UNCHANGED sphase
           ELSE /\ sphase' \in {"fault", "garbage"}
                /\ UNCHANGED <<membuf, readback>>
    /\ UNCHANGED <<vals, nwritten, ssize, wend, overrun>>
    /\ SerFrame

NextSer ==
    \/ \E v \in SerValues : ScaleValue(v)
    \/ Allocate
    \/ WriteNext
    \/ Rewind
    \/ ReadNext

SpecSer == Init /\ [][NextSer]_vars

\* C16: values written in order with operator<< and read back in the same
\* order with operator>> from index 0 come back equal, no read leaves the
\* buffer, and when all are read the index is where the writes ended.
C16_RoundTrip ==
    /\ sphase \notin {"fault", "garbage"}
    /\ sphase = "read" =>
        /\ \A i \in 1 .. Len(readback) : readback[i] = vals[i]
        /\ Len(readback) = Len(vals) => membuf.index = wend

\* C17: every operator<< advances index by what scale::operator| adds for the
\* same value, no write goes past the end of a buffer of the scaled size, and
\* when all values are written the index is the scaled size, the buffer's length.
C17_ScalerExact ==
    /\ [](/\ overrun = FALSE
          /\ sphase = "read" => (wend = ssize /\ wend = Len(membuf.buffer)))
    /\ [][nwritten' = nwritten + 1 =>
            membuf'.index - membuf.index = scale_or(0, vals[nwritten'])]_vars

C17_Witness ==
    /\ sphase = "read"
    /\ Len(vals) = MaxVals
    /\ \E i, j \in 1 .. Len(vals) : vals[i].kind = "str" /\ vals[j].kind = "vec" /\ vals[j].data # <<>>


\* ---------------------------------------------------------------------------
\* provider::create_stream (dma.hpp 213-249)
\* ---------------------------------------------------------------------------

\* A uint32_t is held as the 32-bit two's-complement integer with the same
\* bits: 0 .. 2^31 - 1 stand for themselves, -1 for 0xFFFFFFFF, -8 for
\* 0xFFFFFFF8, and so on.
MaxInt32 == 2147483647

\* a + b on uint32_t (modulo 2^32), for 0 <= b < 2^31
AddU32(a, b) ==
    IF a > MaxInt32 - b THEN (a - MaxInt32 - 1) + (b - MaxInt32 - 1) ELSE a + b

\* a <= b on uint32_t
LeU32(a, b) ==
    IF (a >= 0) = (b >= 0) THEN a <= b ELSE a >= 0

\* capacity = ((capacity + 7) / 8) * 8; // round up
\* (the division and the multiplication on uint32_t: 2^29 and 2^28 are the
\* quotients of 2^32 and 2^31 by 8)
RoundUp8(capacity) ==
    LET sum == AddU32(capacity, 7)
        q == IF sum >= 0 THEN sum \div 8 ELSE 536870912 + (sum \div 8)
    IN  IF q >= 268435456 THEN (q - 536870912) * 8 ELSE q * 8

\* the capacities a program asks for: 0, small ones on both sides of a
\* multiple of 8, and the largest uint32_t values
Capacities == {0, 1, 7, 8, 9, 16, -9, -8, -7, -1}

ProvFrame == UNCHANGED <<wvars, mvars, svars, kvars>>

\* provider::initialize_ (called by the constructor) leaves env_initialized_ at
\* 0 or 1 when the platform cannot be set up, at 2 when it is ready
Initialize ==
    /\ env_initialized_ = 0
    /\ ncreates = 0
    /\ env_initialized_' \in {1, 2}
    /\ UNCHANGED <<streams, pcall, ncreates>>
    /\ ProvFrame

\* provider::spawn starts the Epiphany: env_initialized_ goes past 2
Spawn ==
    /\ env_initialized_ = 2
    /\ env_initialized_' = 3
    /\ UNCHANGED <<streams, pcall, ncreates>>
    /\ ProvFrame

\* create_stream(read, write, capacity): read and write are TRUE when the
\* callback is not nullptr, fits when ext_malloc_ returns a nonzero pointer
create_stream(read, write, capacity, fits) ==
    IF env_initialized_ # 2 THEN [ret |-> FALSE, streams |-> streams]
    ELSE IF capacity = 0 THEN [ret |-> FALSE, streams |-> streams]
    ELSE IF ~read \/ ~write THEN [ret |-> FALSE, streams |-> streams]
    ELSE IF ~fits THEN [ret |-> FALSE, streams |-> streams]
    ELSE [ret |-> TRUE,
          streams |-> Append(streams, [capacity |-> RoundUp8(capacity), descriptor |-> 0])]

CreateStream(read, write, capacity, fits) ==
    /\ ncreates < MaxStreams
    /\ ncreates' = ncreates + 1
    /\ LET r == create_stream(read, write, capacity, fits)
       IN  /\ streams' = r.streams
           /\ pcall' = [made |-> TRUE, read |-> read, write |-> write,
                        capacity |-> capacity, fits |-> fits,
                        env |-> env_initialized_, before |-> streams, ret |-> r.ret]
    /\ UNCHANGED env_initialized_
    /\ ProvFrame

NextProv ==
    \/ Initialize
    \/ Spawn
    \/ \E read, write, fits \in BOOLEAN : \E capacity \in Capacities :
            CreateStream(read, write, capacity, fits)

SpecProv == Init /\ [][NextProv]_vars

\* C18: create_stream returns true exactly when env_initialized_ is 2, the
\* capacity is nonzero, both callbacks are given and the allocation succeeds;
\* it then appends one stream whose capacity is the requested capacity rounded
\* up to the nearest multiple of 8; otherwise it returns false and streams is
\* unchanged.
C18_CreateStream ==
    pcall.made =>
        LET good == /\ pcall.env = 2
                    /\ pcall.capacity # 0
                    /\ pcall.read /\ pcall.write
                    /\ pcall.fits
        IN  /\ pcall.ret = good
            /\ pcall.ret =>
                /\ Len(streams) = Len(pcall.before) + 1
                /\ SubSeq(streams, 1, Len(pcall.before)) = pcall.before
                /\ LET r == streams[Len(streams)].capacity
                   IN  /\ r % 8 = 0
                       /\ LeU32(pcall.capacity, r)
                       /\ \E d \in 0 .. 7 : r = AddU32(pcall.capacity, d)
            /\ ~pcall.ret => streams = pcall.before


\* ---------------------------------------------------------------------------
\* epiphany::stream (stream.hpp), with its dma_task (dma.hpp 13-82)
\* ---------------------------------------------------------------------------

\* Addresses and size_t values are 32-bit words, held like uint32_t above.
\* The stream buffers lie in external memory, the kernel's own buffers in
\* the core's local memory.
ExtBase == -1912602624    \* 0x8E000000
LocalBuf == 16384         \* 0x4000

\* the stream descriptors a kernel finds: capacity, offset of the window held
\* in the buffer, size of the data in it
Descriptors ==
    {d \in [capacity : {8, 16}, offset : {0, 8}, size : {0, 1, 8, 16}] : d.size <= d.capacity}

Deltas == {-9, -1, 0, 1, 7, 8, 24}
Positions == {0, 4, 8, 16, 24}
ByteCounts == {0, 1, 7, 8, 9, 16}

StreamFrame == UNCHANGED <<wvars, mvars, pvars, kvars>>

is_valid == strm.stream_id # -1

Callable == is_valid /\ spc = Idle /\ nops < MaxOps

\* stream::open(id): the stream takes the buffer, capacity, offset and size of
\* the descriptor of stream id; the cursor starts at the buffer
Open(d) ==
    /\ ~is_valid
    /\ nops = 0
    /\ strm' = [stream_id |-> 0, buffer |-> ExtBase, capacity |-> d.capacity,
                offset |-> d.offset, size |-> d.size, cursor |-> ExtBase]
    /\ UNCHANGED <<dmabusy, spc, scall, lastdma, ndma, nops>>
    /\ StreamFrame

\* _dma_interrupt_: the transfer is over, the handler clears E_DMA_ENABLE
DmaInterrupt ==
    /\ dmabusy
    /\ dmabusy' = FALSE
    /\ UNCHANGED <<strm, spc, scall, lastdma, ndma, nops>>
    /\ StreamFrame

\* dma_task::push(dst, src, nbytes, engine): set() sets E_DMA_ENABLE
dma_push(dst, src, nbytes) ==
    /\ dmabusy' = TRUE
    /\ lastdma' = [made |-> TRUE, dst |-> dst, src |-> src, nbytes |-> nbytes, wasbusy |-> dmabusy]
    /\ ndma' = ndma + 1

\* stream::seek_rel(delta_bytes): the cursor after the call
seek_rel(delta_bytes) ==
    IF delta_bytes <= 0
    THEN LET c == strm.cursor + delta_bytes
         IN  IF ~LeU32(strm.buffer, c) THEN strm.buffer ELSE c
    ELSE LET remaining == strm.buffer + strm.size - strm.cursor
             d == IF ~LeU32(delta_bytes, remaining) THEN remaining ELSE delta_bytes
         IN  strm.cursor + d

SeekRel(delta_bytes) ==
    /\ Callable
    /\ strm' = [strm EXCEPT !.cursor = seek_rel(delta_bytes)]
    /\ nops' = nops + 1
    /\ UNCHANGED <<dmabusy, spc, scall, lastdma, ndma>>
    /\ StreamFrame

\* stream::seek_abs(offset_); scall keeps the argument, the window offset
\* before the call, and the offset and the cursor after it
SeekAbs(offset_) ==
    /\ Callable
    /\ LET off == IF offset_ < strm.offset \/ ~LeU32(offset_, strm.offset + strm.capacity)
                  THEN strm.capacity ELSE strm.offset
       IN  /\ strm' = [strm EXCEPT !.offset = off, !.cursor = strm.buffer + off]
           /\ scall' = [made |-> TRUE, op |-> "seek_abs", offset_ |-> offset_,
                        offset0 |-> strm.offset, offset1 |-> off,
                        cursor1 |-> strm.buffer + off]
    /\ nops' = nops + 1
    /\ UNCHANGED <<dmabusy, spc, lastdma, ndma>>
    /\ StreamFrame

\* a call in progress, and the record of a call that has returned
Running(at, local, sz, wfc) ==
    [at |-> at, local |-> local, size |-> sz, wait_for_completion |-> wfc,
     cursor0 |-> strm.cursor, ndma0 |-> ndma, moved |-> 0]

\* cursor1, ndma1, busy: the cursor, the count of transfers and the state of
\* the dma_task when the call returns; nbytes: the size of its transfer
Returned(op, call, ret, cursor1, ndma1, busy) ==
    [made |-> TRUE, op |-> op, local |-> call.local, size |-> call.size,
     wait_for_completion |-> call.wait_for_completion,
     cursor0 |-> call.cursor0, ndma0 |-> call.ndma0, ret |-> ret,
     cursor1 |-> cursor1, ndma1 |-> ndma1, nbytes |-> call.moved, busy |-> busy]

\* stream::write, up to its first wait(): return -1 when size > remaining
WriteCall(data, sz, wfc) ==
    /\ Callable
    /\ nops' = nops + 1
    /\ LET remaining == strm.buffer + strm.capacity - strm.cursor
       IN  IF ~LeU32(sz, remaining)
           THEN /\ scall' = Returned("write", Running("write_wait", data, sz, wfc), -1, strm.cursor, ndma, dmabusy)
                /\ UNCHANGED spc
           ELSE /\ spc' = Running("write_wait", data, sz, wfc)
                /\ UNCHANGED scall
    /\ UNCHANGED <<strm, dmabusy, lastdma, ndma>>
    /\ StreamFrame

\* stream::write after wait(): round size up, dma.push, move the cursor, and
\* return unless wait_for_completion
WriteIssue ==
    /\ spc.at = "write_wait"
    /\ ~dmabusy
    /\ LET sz == RoundUp8(spc.size)
       IN  /\ dma_push(strm.cursor, spc.local, sz)
           /\ strm' = [strm EXCEPT !.cursor = strm.cursor + sz]
           /\ IF spc.wait_for_completion
              THEN /\ spc' = [spc EXCEPT !.at = "write_done", !.moved = sz]
                   /\ UNCHANGED scall
              ELSE /\ spc' = Idle
                   /\ scall' = Returned("write", [spc EXCEPT !.moved = sz], sz,
                                        strm.cursor + sz, ndma + 1, TRUE)
    /\ UNCHANGED nops
    /\ StreamFrame

\* stream::write after its second wait(): return size
WriteDone ==
    /\ spc.at = "write_done"
    /\ ~dmabusy
    /\ spc' = Idle
    /\ scall' = Returned("write", spc, spc.moved, strm.cursor, ndma, dmabusy)
    /\ UNCHANGED <<strm, dmabusy, lastdma, ndma, nops>>
    /\ StreamFrame


\* stream::read(buffer, size, wait_for_completion), up to its wait(): the
\* parameters buffer and size hide the members of the same names
ReadCall(buffer, sz, wfc) ==
    /\ Callable
    /\ nops' = nops + 1
    /\ LET remaining == buffer + sz - strm.cursor
       IN  IF remaining = 0
           THEN /\ scall' = Returned("read", Running("read_wait", buffer, sz, wfc), 0, strm.cursor, ndma, dmabusy)
                /\ UNCHANGED spc
           ELSE /\ spc' = [Running("read_wait", buffer, sz, wfc)
                              EXCEPT !.moved = IF ~LeU32(sz, remaining) THEN remaining ELSE sz]
                /\ UNCHANGED scall
    /\ UNCHANGED <<strm, dmabusy, lastdma, ndma>>
    /\ StreamFrame

\* stream::read after wait(): dma.push, move the cursor, and return unless
\* wait_for_completion
ReadIssue ==
    /\ spc.at = "read_wait"
    /\ ~dmabusy
    /\ dma_push(spc.local, strm.cursor, spc.moved)
    /\ strm' = [strm EXCEPT !.cursor = strm.cursor + spc.moved]
    /\ IF spc.wait_for_completion
       THEN /\ spc' = [spc EXCEPT !.at = "read_done"]
            /\ UNCHANGED scall
       ELSE /\ spc' = Idle
            /\ scall' = Returned("read", spc, spc.moved, strm.cursor + spc.moved, ndma + 1, TRUE)
    /\ UNCHANGED nops
    /\ StreamFrame

\* stream::read after its second wait(): return size
ReadDone ==
    /\ spc.at = "read_done"
    /\ ~dmabusy
    /\ spc' = Idle
    /\ scall' = Returned("read", spc, spc.moved, strm.cursor, ndma, dmabusy)
    /\ UNCHANGED <<strm, dmabusy, lastdma, ndma, nops>>
    /\ StreamFrame

\* stream::close(): wait(), then stream_id = -1
Close ==
    /\ is_valid
    /\ spc = Idle
    /\ ~dmabusy
    /\ strm' = [strm EXCEPT !.stream_id = -1]
    /\ UNCHANGED <<dmabusy, spc, scall, lastdma, ndma, nops>>
    /\ StreamFrame

NextStream ==
    \/ \E d \in Descriptors : Open(d)
    \/ DmaInterrupt
    \/ \E delta_bytes \in Deltas : SeekRel(delta_bytes)
    \/ \E offset_ \in Positions : SeekAbs(offset_)
    \/ \E sz \in ByteCounts : \E wfc \in BOOLEAN : WriteCall(LocalBuf, sz, wfc)
    \/ WriteIssue
    \/ WriteDone
    \/ \E sz \in ByteCounts : \E wfc \in BOOLEAN : ReadCall(LocalBuf, sz, wfc)
    \/ ReadIssue
    \/ ReadDone
    \/ Close

SpecStream == Init /\ [][NextStream]_vars

\* C19: a write whose size exceeds the space between the cursor and the end of
\* the buffer returns a negative value, leaves the cursor where it was and
\* starts no transfer; any other write returns the number of bytes it
\* transferred, has moved the cursor by that number, and with
\* wait_for_completion returns with the transfer over.
C19_Write ==
    (scall.made /\ scall.op = "write") =>
        IF scall.size > 0 /\ scall.size > strm.buffer + strm.capacity - scall.cursor0
        THEN /\ scall.ret < 0
             /\ scall.cursor1 = scall.cursor0
             /\ scall.ndma1 = scall.ndma0
        ELSE /\ scall.ret = scall.nbytes
             /\ scall.cursor1 = scall.cursor0 + scall.ret
             /\ scall.wait_for_completion => ~scall.busy

\* C20: a read returns the number of bytes it transferred, at most the size
\* asked for and at most what lies between the cursor and the end of the
\* stream data; asked for at least one byte, it returns 0 exactly when the
\* cursor is at that end; the cursor has moved by the number returned.
C20_Read ==
    (scall.made /\ scall.op = "read") =>
        /\ scall.ret = scall.nbytes
        /\ scall.ret >= 0
        /\ scall.ret <= scall.size
        /\ scall.ret > 0 => scall.cursor0 + scall.ret <= strm.buffer + strm.size
        /\ scall.size > 0 => ((scall.ret = 0) = (scall.cursor0 = strm.buffer + strm.size))
        /\ scall.cursor1 = scall.cursor0 + scall.ret


\* ---------------------------------------------------------------------------
\* The callbacks of provider::create_stream(data, data_size, capacity)
\* (dma.hpp 268-295)
\* ---------------------------------------------------------------------------

\* a - b on uint32_t (modulo 2^32)
SubU32(a, b) ==
    IF b < 0 /\ a > MaxInt32 + b THEN (a - MaxInt32 - 1) - (b + MaxInt32 + 1)
    ELSE IF b > 0 /\ a < b - MaxInt32 - 1 THEN (a + MaxInt32 + 1) - (b - MaxInt32 - 1)
    ELSE a - b

\* the uint32_t values given as data_size, offset and size_requested: small
\* ones, and 0x7FFFFFFF, 0x80000000, 0xFFFFFFF8 and 0xFFFFFFFF
Words == {0, 1, 7, 8, 9, MaxInt32, -MaxInt32 - 1, -8, -1}

\* the read lambda: the count it returns (as int) and the bytes it copies,
\* n bytes from data + from; it copies nothing when it returns -1
read_lambda(data_size, offset, size_requested) ==
    LET left == SubU32(data_size, offset)
        size == IF ~LeU32(size_requested, left) THEN left ELSE size_requested
    IN  IF size = 0 THEN [ret |-> -1, from |-> 0, n |-> 0]
        ELSE [ret |-> size, from |-> offset, n |-> size]

CbFrame == UNCHANGED <<wvars, mvars, pvars, svars>>

\* the environment calls the read callback of a stream created over data_size bytes
ReadLambda(data_size, offset, size_requested) ==
    /\ cbcall' = [made |-> TRUE, data_size |-> data_size, offset |-> offset,
                  size_requested |-> size_requested,
                  out |-> read_lambda(data_size, offset, size_requested)]
    /\ CbFrame

NextCb == \E data_size, offset, size_requested \in Words : ReadLambda(data_size, offset, size_requested)

SpecCb == Init /\ [][NextCb]_vars

\* C21: the read callback returns -1 and copies nothing when no byte remains
\* at offset (offset >= data_size, or size_requested = 0); otherwise it
\* returns a count n, 1 <= n <= size_requested, with offset + n <= data_size,
\* and copies the n bytes of data from offset on.
C21_ReadCallback ==
    cbcall.made =>
        LET o == cbcall.out IN
        IF LeU32(cbcall.data_size, cbcall.offset) \/ cbcall.size_requested = 0
        THEN o.ret = -1 /\ o.n = 0
        ELSE /\ o.ret >= 1
             /\ LeU32(o.ret, cbcall.size_requested)
             /\ LeU32(o.ret, SubU32(cbcall.data_size, cbcall.offset))
             /\ o.n = o.ret
             /\ o.from = cbcall.offset


\* C22: every dma.push of a stream finds the dma_task not busy, and write and
\* read wait for the transfer before them on every call: when a call returns
\* with the task busy, the transfer is the one this call started.
C22_DmaNotBusy ==
    /\ lastdma.made => ~lastdma.wasbusy
    /\ (scall.made /\ scall.op \in {"write", "read"} /\ scall.busy) =>
            scall.ndma1 = scall.ndma0 + 1

\* C23: the cursor of an open stream lies in the buffer or at its end:
\* buffer <= cursor <= buffer + capacity.
C23_CursorInBuffer ==
    is_valid =>
        /\ LeU32(strm.buffer, strm.cursor)
        /\ LeU32(strm.cursor, strm.buffer + strm.capacity)

\* C24: seek_abs(o) with o in the window held in the buffer
\* (offset <= o <= offset + capacity) leaves the cursor at
\* buffer + (o - offset) and the window offset unchanged.
C24_SeekAbs ==
    (/\ scall.made /\ scall.op = "seek_abs"
     /\ scall.offset0 <= scall.offset_
     /\ scall.offset_ <= scall.offset0 + strm.capacity) =>
        /\ scall.cursor1 = strm.buffer + (scall.offset_ - scall.offset0)
        /\ scall.offset1 = scall.offset0

====
